---- MODULE Spec2Model ----
(***************************************************************************)
(* Model of the weekly to-do list component                                *)
(* (src/minimalist_to_do_app_react_single_file.jsx).                       *)
(*                                                                         *)
(* JavaScript values are tagged records, so that a value that is not what  *)
(* the code expects (a closure where an array should be, null where the    *)
(* mapping should be) is a value of the model:                             *)
(*   a day bucket   [kind |-> "array" | "function", items |-> <<task>>]     *)
(*   the store      [kind |-> "object" | "null" | "number" | "array",       *)
(*                   members |-> [day key -> bucket]]                       *)
(*   a stored text  [kind |-> "absent" | "empty" | "garbage" | "object" |   *)
(*                   "null" | "number" | "array", members |-> <<member>>]   *)
(* A string is a sequence of characters; a day key is the index 0..6 of    *)
(* the day in the displayed week (weekDates[i].key); rows and sequence     *)
(* positions are counted from 1, so row r is the code's index r - 1.       *)
(***************************************************************************)
EXTENDS Integers, Sequences, FiniteSets, TLC

VARIABLES tasksByDate, nextState, queued, pc, blob, selectedDayIndex, filter,
          dragItem, startupBlob

vars == <<tasksByDate, nextState, queued, pc, blob, selectedDayIndex, filter,
          dragItem, startupBlob>>

\* ---------------------------------------------------------------- bounds
MaxTasks == 3      \* tasks held by the whole store
NumIds == 2        \* distinct results of uid()
MaxLen == 2        \* length of a typed string
MaxNow == 0        \* largest reading of the clock
MaxDay == 1        \* the user clicks Sunday and the first MaxDay days of the week

\* ------------------------------------------------------ program constants
NumDays == 7
Null == 0

Chars == {" ", "a"}
Ids == 1..NumIds
Times == 0..MaxNow
Keys == 0..(NumDays - 1)
Days == {NumDays - 1} \cup 0..(MaxDay - 1)
Filters == {"all", "active", "done"}

Strings == UNION {[1..n -> Chars] : n \in 0..MaxLen}

\* ------------------------------------------------------------- JS values
Arr(items) == [kind |-> "array", items |-> items]
Closure == [kind |-> "function", items |-> <<>>]
NoMembers == [k \in {} |-> Arr(<<>>)]
Obj(members) == [kind |-> "object", members |-> members]
EmptyStore == Obj(NoMembers)
JsNull == [kind |-> "null", members |-> NoMembers]
JsNumber == [kind |-> "number", members |-> NoMembers]
JsArray == [kind |-> "array", members |-> NoMembers]

IsArray(b) == b.kind = "array"

\* String.prototype.trim
RECURSIVE trimStart(_)
trimStart(s) ==
    IF s # <<>> /\ Head(s) = " " THEN trimStart(Tail(s)) ELSE s

RECURSIVE trimEnd(_)
trimEnd(s) ==
    IF s # <<>> /\ s[Len(s)] = " " THEN trimEnd(SubSeq(s, 1, Len(s) - 1)) ELSE s

trim(s) == trimEnd(trimStart(s))

\* ------------------------------------------------------------ week window
selectedKey == selectedDayIndex
nextDayKey == (selectedDayIndex + 1) % NumDays
yesterdayKey == (selectedDayIndex + 6) % NumDays

\* ------------------------------------------------------------------ store
\* tasksByDate[key]: undefined (here: absent) unless the store is a mapping
\* that has the key.
HasKey(store, key) == store.kind = "object" /\ key \in DOMAIN store.members

\* tasksByDate[key] ? tasksByDate[key] : []  -- arrays and closures are truthy
tasksFor(store, key) ==
    IF HasKey(store, key) THEN store.members[key] ELSE Arr(<<>>)

tasksForKey(key) == tasksFor(tasksByDate, key)

\* setTasksForKey without the spread of prev
setTasksForKeyNoSpread(prev, key, arr) == Obj([k \in {key} |-> arr])

\* prev => ({ ...prev, [key]: arr }); spreading null, a number or an empty
\* array contributes no member.
setTasksForKey(prev, key, arr) ==
    LET old == IF prev.kind = "object" THEN prev.members ELSE NoMembers
    IN  Obj([k \in DOMAIN old \cup {key} |-> IF k = key THEN arr ELSE old[k]])

\* ------------------------------------------------- operations on a bucket
\* { id: uid(), text: t, done: false, createdAt: Date.now() }
newTask(id, t, now) == [id |-> id, text |-> t, done |-> FALSE, createdAt |-> now]

\* [newTask, ...existing]
addTaskArr(existing, id, t, now) == <<newTask(id, t, now)>> \o existing

\* toggleDone that marks the task done instead of flipping it
toggleDoneArrSet(arr, id) ==
    [i \in DOMAIN arr |-> IF arr[i].id = id THEN [arr[i] EXCEPT !.done = TRUE] ELSE arr[i]]

\* .map(t => (t.id === id ? { ...t, done: !t.done } : t))
toggleDoneArr(arr, id) ==
    [i \in DOMAIN arr |-> IF arr[i].id = id THEN [arr[i] EXCEPT !.done = ~@] ELSE arr[i]]

\* .filter(t => t.id !== id)
deleteTaskArr(arr, id) == SelectSeq(arr, LAMBDA t : t.id # id)

\* .map(t => (t.id === id ? { ...t, text: newText } : t))
editTaskArr(arr, id, newText) ==
    [i \in DOMAIN arr |-> IF arr[i].id = id THEN [arr[i] EXCEPT !.text = newText] ELSE arr[i]]

\* .filter(t => !t.done)
clearCompletedArr(arr) == SelectSeq(arr, LAMBDA t : ~t.done)

\* from.map(f => ({ id: uid(), text: f.text, done: false, createdAt: Date.now() }))
\* ids[i] and nows[i] are the results of the i-th calls of uid() and Date.now()
copiesOf(from, ids, nows) ==
    [i \in DOMAIN from |-> newTask(ids[i], from[i].text, nows[i])]

\* [...copies, ...tasksForKey(selectedKey)]
importArr(source, dest, ids, nows) ==
    copiesOf(clearCompletedArr(source), ids, nows) \o dest

\* the updater onDragOver hands to setTasksForKey: splice the dragged element
\* out and back in (rows counted from 1)
reorderUpdater(prev, dragIndex, index) ==
    LET moved == prev[dragIndex]
        copy == SubSeq(prev, 1, dragIndex - 1) \o SubSeq(prev, dragIndex + 1, Len(prev))
    IN  SubSeq(copy, 1, index - 1) \o <<moved>> \o SubSeq(copy, index, Len(copy))

\* the rows the list renders
visibleOf(arr, f) ==
    SelectSeq(arr, LAMBDA t : IF f = "active" THEN ~t.done
                              ELSE IF f = "done" THEN t.done ELSE TRUE)

visible == visibleOf(tasksForKey(selectedKey).items, filter)

\* the render body reads tasksByDate[key] and calls .filter on the bucket of
\* the selected day: a TypeError when the store is null or the bucket no array
renderThrows(store, key) == store.kind = "null" \/ ~IsArray(tasksFor(store, key))

RECURSIVE countFrom(_, _)
countFrom(store, k) ==
    IF k = NumDays THEN 0
    ELSE Len(tasksFor(store, k).items) + countFrom(store, k + 1)

TotalTasks(store) == countFrom(store, 0)

\* ------------------------------------------------------------ persistence
Text(kind, members) == [kind |-> kind, members |-> members]
Absent == Text("absent", <<>>)          \* getItem returns null
EmptyText == Text("empty", <<>>)        \* ""
Garbage == Text("garbage", <<>>)        \* text JSON.parse rejects

\* startupBlob remembers the text the session found until the first event,
\* and from then on only whether it was a stored mapping
WellFormed(raw) == raw.kind \in {"object", "started_wellformed"}
Forget(raw) == IF WellFormed(raw) THEN Text("started_wellformed", <<>>)
               ELSE Text("started_malformed", <<>>)

\* a serialiser that writes every task as not done
encodeTaskNoDone(t) == <<t.id, t.text, FALSE, t.createdAt>>
encodeTask(t) == <<t.id, t.text, t.done, t.createdAt>>
decodeTask(e) == [id |-> e[1], text |-> e[2], done |-> e[3], createdAt |-> e[4]]
encodeArr(arr) == [i \in DOMAIN arr |-> encodeTask(arr[i])]
decodeArr(elems) == [i \in DOMAIN elems |-> decodeTask(elems[i])]

\* JSON.stringify writes one member per key whose value is not a function
RECURSIVE membersFrom(_, _)
membersFrom(store, k) ==
    IF k = NumDays THEN <<>>
    ELSE (IF HasKey(store, k) /\ IsArray(store.members[k])
          THEN << <<k, encodeArr(store.members[k].items)>> >>
          ELSE <<>>) \o membersFrom(store, k + 1)

stringify(store) ==
    IF store.kind = "object" THEN Text("object", membersFrom(store, 0))
    ELSE Text(store.kind, <<>>)

parseThrows(raw) == raw.kind \in {"garbage", "empty"}

\* JSON.parse, for a text it accepts; a repeated key takes its last member
parse(raw) ==
    IF raw.kind = "object"
    THEN LET ms == raw.members
             last(k) == CHOOSE i \in DOMAIN ms :
                           ms[i][1] = k /\ \A j \in DOMAIN ms : ms[j][1] = k => j <= i
         IN  Obj([k \in {ms[i][1] : i \in DOMAIN ms} |-> Arr(decodeArr(ms[last(k)][2]))])
    ELSE IF raw.kind = "absent" THEN JsNull
    ELSE [kind |-> raw.kind, members |-> NoMembers]

\* if (raw) ...: null and "" are falsy
truthy(raw) == raw.kind \notin {"absent", "empty"}

\* -------------------------------------------------------------- lifecycle
\* pc: "effects_load" and "effects_save" while the effects of the last commit
\* are pending, "idle" between events, "crashed" once a render has thrown.
\* queued: the state update waiting for the next render ("store" when
\* setTasksByDate was called, "view" for the other setters); nextState is the
\* store that render will see.

InitCommon ==
    /\ tasksByDate = EmptyStore
    /\ nextState = EmptyStore
    /\ queued = "none"
    /\ pc = "effects_load"
    /\ selectedDayIndex \in Days
    /\ filter = "all"
    /\ dragItem = Null
    /\ startupBlob = blob

Init == blob = Absent /\ InitCommon

\* useEffect(() => { try { raw = getItem; if (raw) setTasksByDate(JSON.parse(raw)) } catch {} }, [])
LoadEffect ==
    /\ pc = "effects_load"
    /\ IF truthy(blob) /\ ~parseThrows(blob)
       THEN nextState' = parse(blob) /\ queued' = "store"
       ELSE UNCHANGED <<nextState, queued>>
    /\ pc' = "effects_save"
    /\ UNCHANGED <<tasksByDate, blob, selectedDayIndex, filter, dragItem, startupBlob>>

\* useEffect(() => { setItem(STORAGE_KEY, JSON.stringify(tasksByDate)) }, [tasksByDate])
SaveEffect ==
    /\ pc = "effects_save"
    /\ blob' = stringify(tasksByDate)
    /\ pc' = "idle"
    /\ UNCHANGED <<tasksByDate, nextState, queued, selectedDayIndex, filter, dragItem,
                   startupBlob>>

\* the re-render React runs for a queued update, before the next event
Render ==
    /\ pc = "idle"
    /\ queued # "none"
    /\ tasksByDate' = nextState
    /\ queued' = "none"
    /\ pc' = IF renderThrows(nextState, selectedKey) THEN "crashed"
             ELSE IF queued = "store" THEN "effects_save" ELSE "idle"
    /\ UNCHANGED <<nextState, blob, selectedDayIndex, filter, dragItem, startupBlob>>

\* an event handler runs between renders; a pointer drag in progress takes
\* the pointer, so clicks and key presses arrive only outside one
Ready == pc = "idle" /\ queued = "none"
Clickable == Ready /\ dragItem = Null

\* setTasksForKey(key, arr) as a handler calls it
Write(key, arr) ==
    /\ nextState' = setTasksForKey(tasksByDate, key, arr)
    /\ queued' = "store"
    /\ startupBlob' = Forget(startupBlob)
    /\ UNCHANGED <<tasksByDate, pc, blob, selectedDayIndex, filter>>

\* a handler that returns before it sets any state
NoWrite ==
    /\ startupBlob' = Forget(startupBlob)
    /\ UNCHANGED <<tasksByDate, nextState, queued, pc, blob, selectedDayIndex, filter>>

\* onClick={() => setSelectedDayIndex(wd.index)}
SelectDay(i) ==
    /\ Clickable
    /\ selectedDayIndex' = i
    /\ queued' = "view"
    /\ startupBlob' = Forget(startupBlob)
    /\ UNCHANGED <<tasksByDate, nextState, pc, blob, filter, dragItem>>

\* onClick={() => setFilter(f)}
SetFilter(f) ==
    /\ Clickable
    /\ filter' = f
    /\ queued' = "view"
    /\ startupBlob' = Forget(startupBlob)
    /\ UNCHANGED <<tasksByDate, nextState, pc, blob, selectedDayIndex, dragItem>>

\* -------------------------------------------------------- event handlers
\* addTask without the trim
addTaskNoTrim(text, targetKey) ==
    LET existing == tasksForKey(targetKey)
    IN  IF text = <<>>
        THEN NoWrite
        ELSE /\ TotalTasks(tasksByDate) < MaxTasks
             /\ IsArray(existing)
             /\ \E id \in Ids, now \in Times :
                    Write(targetKey, Arr(addTaskArr(existing.items, id, text, now)))

\* addTask(text, targetKey); the text is whatever the input box holds
addTask(text, targetKey) ==
    LET t == trim(text)
        existing == tasksForKey(targetKey)
    IN  IF t = <<>>
        THEN NoWrite
        ELSE /\ TotalTasks(tasksByDate) < MaxTasks
             /\ IsArray(existing)
             /\ \E id \in Ids, now \in Times :
                    Write(targetKey, Arr(addTaskArr(existing.items, id, t, now)))

\* the Add button, and Enter in the input box
AddToday(text) == Clickable /\ addTask(text, selectedKey) /\ UNCHANGED dragItem

\* the Tomorrow button
AddTomorrow(text) == Clickable /\ addTask(text, nextDayKey) /\ UNCHANGED dragItem

toggleDone(key, id) == Write(key, Arr(toggleDoneArr(tasksForKey(key).items, id)))

deleteTask(key, id) == Write(key, Arr(deleteTaskArr(tasksForKey(key).items, id)))

editTask(key, id, newText) ==
    Write(key, Arr(editTaskArr(tasksForKey(key).items, id, newText)))

clearCompleted(key) == Write(key, Arr(clearCompletedArr(tasksForKey(key).items)))

clearAll(key) == Write(key, Arr(<<>>))

\* the checkbox of row r
ToggleRow(r) ==
    /\ Clickable
    /\ r \in DOMAIN visible
    /\ toggleDone(selectedKey, visible[r].id)
    /\ UNCHANGED dragItem

\* the delete button of row r
DeleteRow(r) ==
    /\ Clickable
    /\ r \in DOMAIN visible
    /\ deleteTask(selectedKey, visible[r].id)
    /\ UNCHANGED dragItem

\* EditableText.save of row r, with `value` in its input box
EditSave(r, value) ==
    /\ Clickable
    /\ r \in DOMAIN visible
    /\ LET trimmed == trim(value)
       IN  IF trimmed # <<>>
           THEN editTask(selectedKey, visible[r].id, trimmed)
           ELSE NoWrite
    /\ UNCHANGED dragItem

ClearCompleted == Clickable /\ clearCompleted(selectedKey) /\ UNCHANGED dragItem

ClearAll == Clickable /\ clearAll(selectedKey) /\ UNCHANGED dragItem

importYesterday ==
    LET from == clearCompletedArr(tasksForKey(yesterdayKey).items)
        n == Len(from)
    IN  IF n = 0
        THEN NoWrite
        ELSE /\ TotalTasks(tasksByDate) + n <= MaxTasks
             /\ \E ids \in [1..n -> Ids], nows \in [1..n -> Times] :
                    Write(selectedKey,
                          Arr(importArr(tasksForKey(yesterdayKey).items,
                                        tasksForKey(selectedKey).items, ids, nows)))

ImportYesterday == Clickable /\ importYesterday /\ UNCHANGED dragItem

\* onDragStart(e, i) of row r
OnDragStart(r) ==
    /\ Clickable
    /\ r \in DOMAIN visible
    /\ dragItem' = r
    /\ NoWrite

\* onDragOver(e, i) of row r.  The second argument of setTasksForKey is the
\* updater itself: nothing calls it, so dragItem keeps its value and the
\* bucket of the selected day becomes the closure.
OnDragOver(r) ==
    /\ Ready
    /\ r \in DOMAIN visible
    /\ IF dragItem = Null \/ dragItem = r
       THEN NoWrite
       ELSE Write(selectedKey, Closure)
    /\ UNCHANGED dragItem

\* onDragEnd
OnDragEnd ==
    /\ Ready
    /\ dragItem # Null
    /\ dragItem' = Null
    /\ NoWrite

Rows == 1..MaxTasks

Next ==
    \/ LoadEffect
    \/ SaveEffect
    \/ Render
    \/ \E i \in Days : SelectDay(i)
    \/ \E f \in Filters : SetFilter(f)
    \/ \E text \in Strings : AddToday(text)
    \/ \E text \in Strings : AddTomorrow(text)
    \/ \E r \in Rows : ToggleRow(r)
    \/ \E r \in Rows : DeleteRow(r)
    \/ \E r \in Rows, value \in Strings : EditSave(r, value)
    \/ ClearCompleted
    \/ ClearAll
    \/ ImportYesterday
    \/ \E r \in Rows : OnDragStart(r)
    \/ \E r \in Rows : OnDragOver(r)
    \/ OnDragEnd

\* a session of a browser whose storage holds nothing
Spec == Init /\ [][Next]_vars

\* ------------------------------------------- sessions that find a blob
Texts == {s \in Strings : s # <<>> /\ trim(s) = s}
Tasks == [id : Ids, text : Texts, done : BOOLEAN, createdAt : Times]

\* what an earlier session can have left: a store with at most one task
StoredStores ==
    {EmptyStore}
    \cup {Obj([k \in {d} |-> Arr(<<>>)]) : d \in Days}
    \cup {Obj([k \in {d} |-> Arr(<<t>>)]) : d \in Days, t \in Tasks}

WellFormedBlobs == {stringify(st) : st \in StoredStores}

MalformedBlobs ==
    {Absent, EmptyText, Garbage, Text("null", <<>>), Text("number", <<>>),
     Text("array", <<>>)}

InitLoad == blob \in WellFormedBlobs \cup MalformedBlobs /\ InitCommon

SpecLoad == InitLoad /\ [][Next]_vars

\* ------------------------------------------------------------------ claims
bucketOf(store, key) == tasksFor(store, key).items

removeAt(seq, i) == SubSeq(seq, 1, i - 1) \o SubSeq(seq, i + 1, Len(seq))

\* C1: a drag-over of the row at `from` onto another row `to` replaces the
\* bucket of the selected day by a sequence of the same tasks in which the
\* dragged task is at `to` and the others keep their order; with from = to
\* the store is unchanged.
C1_DragOverReorders ==
    [][\A to \in Rows :
         (OnDragOver(to) /\ dragItem # Null) =>
            LET from == dragItem
                old == bucketOf(tasksByDate, selectedKey)
                new == tasksFor(nextState', selectedKey)
            IN  IF from = to
                THEN nextState' = nextState
                ELSE /\ IsArray(new)
                     /\ Len(new.items) = Len(old)
                     /\ new.items[to] = old[from]
                     /\ removeAt(new.items, to) = removeAt(old, from)]_vars

\* C2: between events the stored text parses to the in-memory store; and in a
\* session that found a stored mapping B, once the startup effects have run
\* the store is B and the stored text still parses to B.
C2_PersistenceSynchronized ==
    /\ (Ready /\ WellFormed(startupBlob)) =>
          /\ truthy(blob) /\ ~parseThrows(blob)
          /\ parse(blob) = tasksByDate
    /\ (Ready /\ startupBlob \in WellFormedBlobs) =>
          /\ tasksByDate = parse(startupBlob)
          /\ parse(blob) = parse(startupBlob)

\* a session that found a stored mapping, after some events: two day keys are
\* written, a task is done, and the save effect has run
C2_Witness ==
    /\ Ready
    /\ startupBlob = Forget(Text("object", <<>>))
    /\ Cardinality(DOMAIN tasksByDate.members) >= 2
    /\ \E k \in DOMAIN tasksByDate.members :
           \E i \in DOMAIN bucketOf(tasksByDate, k) : bucketOf(tasksByDate, k)[i].done

\* C3: when the session finds no text or a malformed one, startup raises no
\* error and leaves the store the empty mapping, whose every bucket reads as
\* a sequence.
C3_LoadYieldsEmptyMapping ==
    startupBlob \in MalformedBlobs =>
        /\ pc # "crashed"
        /\ Ready => /\ tasksByDate = EmptyStore
                    /\ \A k \in Keys : IsArray(tasksForKey(k))

\* C4: no bucket holds two tasks with the same id.
C4_IdsUniqueInBucket ==
    \A k \in Keys :
        LET b == bucketOf(tasksByDate, k)
        IN  \A i, j \in DOMAIN b : i # j => b[i].id # b[j].id

\* C5: every stored text is non-empty and trimmed; a blank add creates no
\* task; a blank edit leaves the store as it is.
TextsClean(store) ==
    \A k \in Keys :
        LET b == bucketOf(store, k)
        IN  \A i \in DOMAIN b : b[i].text # <<>> /\ trim(b[i].text) = b[i].text

C5_TextNeverEmpty ==
    /\ [](TextsClean(tasksByDate) /\ TextsClean(nextState))
    /\ [][\A s \in Strings :
            trim(s) = <<>> =>
               /\ (AddToday(s) \/ AddTomorrow(s)) => nextState' = tasksByDate
               /\ \A r \in Rows : EditSave(r, s) => nextState' = tasksByDate]_vars

\* a task whose text was typed with blanks around it is stored
C5_Witness ==
    /\ Ready
    /\ \E k \in Keys : Len(bucketOf(tasksByDate, k)) >= 2
    /\ \E k \in Keys : \E i \in DOMAIN bucketOf(tasksByDate, k) :
           bucketOf(tasksByDate, k)[i].text = <<"a", "a">>

\* C6: an import with an unfinished task in the previous day's bucket puts one
\* clone per unfinished task, in order, before the former bucket of the
\* selected day; a clone has the text of its source, done = false and another
\* id; the previous day's bucket is unchanged.
C6_ImportClonesUnfinished ==
    [][LET src == bucketOf(tasksByDate, yesterdayKey)
           dst == bucketOf(tasksByDate, selectedKey)
           from == clearCompletedArr(src)
           new == bucketOf(nextState', selectedKey)
       IN  (ImportYesterday /\ Len(from) > 0) =>
              /\ Len(new) = Len(from) + Len(dst)
              /\ SubSeq(new, Len(from) + 1, Len(new)) = dst
              /\ \A i \in DOMAIN from :
                     /\ new[i].text = from[i].text
                     /\ new[i].done = FALSE
                     /\ new[i].id # from[i].id
              /\ tasksFor(nextState', yesterdayKey) = tasksFor(tasksByDate, yesterdayKey)]_vars

\* C7: a write changes the bucket of its target key only, and adds or removes
\* no other key.
Frame(target) ==
    \A k \in Keys \ {target} :
        /\ HasKey(nextState', k) = HasKey(tasksByDate, k)
        /\ tasksFor(nextState', k) = tasksFor(tasksByDate, k)

C7_WritesConfinedToTarget ==
    [][/\ Frame(selectedKey)
          \/ ~( \/ \E text \in Strings : AddToday(text)
                \/ \E r \in Rows : ToggleRow(r) \/ DeleteRow(r)
                \/ \E r \in Rows, value \in Strings : EditSave(r, value)
                \/ ClearCompleted
                \/ ClearAll
                \/ ImportYesterday )
       /\ Frame(nextDayKey)
          \/ ~(\E text \in Strings : AddTomorrow(text))]_vars

\* a write to one key has been queued while two other keys hold tasks
C7_Witness ==
    /\ pc = "idle" /\ queued = "store"
    /\ nextState # tasksByDate
    /\ \E k1, k2 \in Keys :
          /\ k1 # k2
          /\ tasksFor(nextState, k1) = tasksFor(tasksByDate, k1)
          /\ tasksFor(nextState, k2) = tasksFor(tasksByDate, k2)
          /\ Len(bucketOf(tasksByDate, k1)) > 0
          /\ Len(bucketOf(tasksByDate, k2)) > 0

\* C8: adding a task with a non-blank text to a bucket and deleting the task
\* just created gives the bucket back.
C8_AddThenDeleteRestores ==
    \A k \in Keys, text \in Strings, id \in Ids, now \in Times :
        LET b == bucketOf(tasksByDate, k)
        IN  trim(text) # <<>> =>
               deleteTaskArr(addTaskArr(b, id, trim(text), now), id) = b

\* C9: a toggle flips done on the tasks with the id and changes nothing else;
\* a second toggle of the id gives the bucket back; an id the bucket does not
\* hold changes nothing.
C9_ToggleIsInvolution ==
    /\ [][\A r \in Rows :
            ToggleRow(r) =>
               LET id == visible[r].id
                   old == bucketOf(tasksByDate, selectedKey)
                   new == bucketOf(nextState', selectedKey)
               IN  /\ Len(new) = Len(old)
                   /\ \A i \in DOMAIN old :
                          /\ new[i].id = old[i].id
                          /\ new[i].text = old[i].text
                          /\ new[i].createdAt = old[i].createdAt
                          /\ new[i].done = IF old[i].id = id THEN ~old[i].done
                                           ELSE old[i].done
                   /\ toggleDoneArr(new, id) = old]_vars
    /\ [](\A k \in Keys, id \in Ids :
             LET b == bucketOf(tasksByDate, k)
             IN  (\A i \in DOMAIN b : b[i].id # id) => toggleDoneArr(b, id) = b)

\* a toggle has been queued on a bucket of two tasks with different ids, one
\* of which it flipped
C9_Witness ==
    /\ pc = "idle" /\ queued = "store"
    /\ LET old == bucketOf(tasksByDate, selectedKey)
           new == bucketOf(nextState, selectedKey)
       IN  /\ Len(old) = 2 /\ Len(new) = 2
           /\ old[1].id # old[2].id
           /\ new[1] = [old[1] EXCEPT !.done = ~@]
           /\ new[2] = old[2]

\* C10: the index a rendered row hands to the drag handlers is an index of
\* the full bucket of the selected day, and the task there is the row's task.
C10_RowIndexIsBucketIndex ==
    Ready =>
        LET b == bucketOf(tasksByDate, selectedKey)
        IN  \A r \in DOMAIN visible : r \in DOMAIN b /\ b[r] = visible[r]

====
